---- MODULE Spec2Model ----
(***************************************************************************)
(* Model of the pdf-to-booklet command line tool (src/main.js).            *)
(*                                                                         *)
(* One run of the script is modelled: argument checks, the dispatch to     *)
(* batch or single-file mode, and pdfToBooklet itself, split at its awaits *)
(* into loading/geometry, one step per iteration of the sheet loop, and    *)
(* saving.                                                                 *)
(*                                                                         *)
(* Lengths are integers counted in half millimetres: pdf-lib's PageSizes   *)
(* A4 = [595.28, 841.89] and A3 = [841.89, 1190.55] points are the sizes   *)
(* 210 x 297 mm and 297 x 420 mm.  In this unit every half of a sheet      *)
(* dimension is an integer, so outputWidth / 2 is exact.  Scales and the   *)
(* scaled sizes are exact rationals extended with the IEEE values          *)
(* Infinity, -Infinity and NaN that JavaScript's division produces;        *)
(* floating-point rounding is not modelled.                                *)
(***************************************************************************)
EXTENDS Integers, Sequences, FiniteSets, TLC

\* Bounds of the model
MaxFiles == 2
MaxPageCount == 5

\* pdf-lib's PageSizes presets [width, height] (portrait), in half millimetres
PageSizesInit == [A4 |-> <<420, 594>>, A3 |-> <<594, 840>>]

\* values of --padding given on the command line
Paddings == {-10, 0, 10, 150}

\* [width, height] of the first page of a source document
FirstPageSizes == {<<200, 600>>, <<600, 200>>, <<0, 600>>, <<200, -600>>, <<0, 0>>}

\* directory entries: a name ending in .pdf (any case) or anything else
FileKinds == {"pdf", "other"}

VARIABLES
  pc,          \* position of the script
  argv,        \* the command line, as the script reads it
  PageSizes,   \* pdf-lib's PageSizes arrays (module-level, mutable)
  files,       \* readdirSync(inputDirectory)
  fileIdx,     \* position of processBatch's for-of loop (1-based)
  inputPdf,    \* the loaded source document: pageCount and first page size
  eng,         \* pdfToBooklet's locals
  outputPdf,   \* pages of the output document, each with its drawPage calls
  embedCalls,  \* page numbers passed to outputPdf.embedPdf, in call order
  results,     \* per directory entry (or the single file): what happened
  stderr,      \* console.error messages
  exitCode     \* -1 while running, else the process exit status

vars == <<pc, argv, PageSizes, files, fileIdx, inputPdf, eng, outputPdf,
          embedCalls, results, stderr, exitCode>>

----------------------------------------------------------------------------
\* JavaScript numbers: exact rationals n/d (d > 0) and the IEEE specials

Fin(n, d) == [k |-> "fin", n |-> n, d |-> d]
Infinity == [k |-> "inf", n |-> 0, d |-> 1]
NegInfinity == [k |-> "ninf", n |-> 0, d |-> 1]
NaN == [k |-> "nan", n |-> 0, d |-> 1]

\* a / b for integers a, b
JsDiv(a, b) ==
  IF b = 0 THEN (IF a > 0 THEN Infinity ELSE IF a < 0 THEN NegInfinity ELSE NaN)
  ELSE IF b > 0 THEN Fin(a, b)
  ELSE Fin(-a, -b)

\* a < b for numbers that are not NaN
JsLess(a, b) ==
  CASE a.k = "ninf" -> b.k # "ninf"
    [] a.k = "inf" -> FALSE
    [] OTHER -> CASE b.k = "inf" -> TRUE
                  [] b.k = "ninf" -> FALSE
                  [] OTHER -> a.n * b.d < b.n * a.d

\* Math.min(a, b)
MathMin(a, b) ==
  IF a.k = "nan" \/ b.k = "nan" THEN NaN
  ELSE IF JsLess(b, a) THEN b ELSE a

\* i * s for an integer i and a number s
JsMul(i, s) ==
  CASE s.k = "nan" -> NaN
    [] s.k = "inf" -> (IF i > 0 THEN Infinity ELSE IF i < 0 THEN NegInfinity ELSE NaN)
    [] s.k = "ninf" -> (IF i > 0 THEN NegInfinity ELSE IF i < 0 THEN Infinity ELSE NaN)
    [] OTHER -> Fin(i * s.n, s.d)

\* Array.prototype.reverse on a two-element array
Reverse(a) == <<a[2], a[1]>>

----------------------------------------------------------------------------
\* pdfToBooklet: geometry

\* Math.ceil(pageCount / 4) * 4
FinalPageCount(pageCount) == ((pageCount + 3) \div 4) * 4

\* options.padding || 0
Padding == IF argv.padding = 0 THEN 0 ELSE argv.padding

\* variant: the padding is left out of the horizontal fit
ScaleX_NoPadding(outputWidth, padding, origWidth) ==
  JsDiv(outputWidth \div 2, origWidth)

ScaleX(outputWidth, padding, origWidth) ==
  JsDiv(outputWidth \div 2 - padding * 2, origWidth)

\* variant: the height is halved in single mode too
ScaleY_AlwaysHalved(outputHeight, padding, origHeight, double) ==
  JsDiv(outputHeight \div 2 - padding * 2, origHeight)

ScaleY(outputHeight, padding, origHeight, double) ==
  IF double
    THEN JsDiv(outputHeight \div 2 - padding * 2, origHeight)
    ELSE JsDiv(outputHeight - padding * 2, origHeight)

Scale(outputWidth, outputHeight, padding, origWidth, origHeight, double) ==
  MathMin(ScaleX(outputWidth, padding, origWidth),
          ScaleY(outputHeight, padding, origHeight, double))

\* the value used where a local has not been assigned yet
NoDoc == [pageCount |-> -1, origWidth |-> -1, origHeight |-> -1]
NoEng == [finalPageCount |-> 0, outputWidth |-> 0, outputHeight |-> 0,
          scale |-> NaN, index |-> 0]

\* the locals pdfToBooklet computes before the sheet loop, given the
\* landscape array that PageSizes.X.reverse() returned
Geometry(doc, size) ==
  [finalPageCount |-> FinalPageCount(doc.pageCount),
   outputWidth |-> size[1],
   outputHeight |-> size[2],
   scale |-> Scale(size[1], size[2], Padding, doc.origWidth, doc.origHeight,
                   argv.double),
   index |-> 0]

----------------------------------------------------------------------------
\* pdfToBooklet: the sheet loop

\* variant: the guard admits pageNumber = pageCount
addPageToOutput_OffByOne(pageNumber, x, y) ==
  IF pageNumber <= inputPdf.pageCount
    THEN << [page |-> pageNumber,
             x |-> x + Padding,
             y |-> y + Padding,
             width |-> JsMul(inputPdf.origWidth, eng.scale),
             height |-> JsMul(inputPdf.origHeight, eng.scale)] >>
    ELSE << >>

\* addPageToOutput: <<>> is undefined, otherwise the one returned object
addPageToOutput(pageNumber, x, y) ==
  IF pageNumber < inputPdf.pageCount
    THEN << [page |-> pageNumber,
             x |-> x + Padding,
             y |-> y + Padding,
             width |-> JsMul(inputPdf.origWidth, eng.scale),
             height |-> JsMul(inputPdf.origHeight, eng.scale)] >>
    ELSE << >>

\* the embedPdf call addPageToOutput made, if any
Embedded(r) == IF r = << >> THEN << >> ELSE << r[1].page >>

\* logical page numbers of the four slots of a sheet
BackLeftPage(finalPageCount, index) == finalPageCount - 1 - index
BackRightPage(finalPageCount, index) == index
FrontLeftPage(finalPageCount, index) == index + 1
\* variant: the front-right slot takes the back-left page
FrontRightPage_AsBackLeft(finalPageCount, index) == finalPageCount - 1 - index
FrontRightPage(finalPageCount, index) == finalPageCount - 2 - index

\* loop header: for (let index = 0; index < finalPageCount / 2; index += 2)
LoopCond(index, finalPageCount) == index < finalPageCount \div 2
\* variant: the loop steps by one
NextIndex_ByOne(index) == index + 1
NextIndex(index) == index + 2

\* one drawPage call; slot and stamp name the local the options come from
Draw(slot, stamp, o) ==
  [slot |-> slot, stamp |-> stamp, page |-> o.page,
   x |-> o.x, y |-> o.y, width |-> o.width, height |-> o.height]

\* variant: the top stamp forgets the padding
TopStamp_NoPadding(bottom) == [bottom EXCEPT !.y = eng.outputHeight \div 2]

\* { ...bottom, y: outputHeight / 2 + padding }
TopStamp(bottom) == [bottom EXCEPT !.y = eng.outputHeight \div 2 + Padding]

\* if (bottom) { drawPage(bottom); if (options.double) drawPage(top) }
DrawSlot(slot, r) ==
  IF r = << >> THEN << >>
  ELSE << Draw(slot, "bottom", r[1]) >> \o
       (IF argv.double THEN << Draw(slot, "top", TopStamp(r[1])) >> ELSE << >>)

----------------------------------------------------------------------------
\* Initial state: the script starts with some command line

Init ==
  /\ pc = "start"
  /\ argv \in [hasPaths : BOOLEAN, inputExists : BOOLEAN,
               inputIsDir : BOOLEAN, outputIsDir : BOOLEAN,
               useA3 : BOOLEAN, double : BOOLEAN, padding : Paddings]
  /\ PageSizes = PageSizesInit
  /\ files = << >>
  /\ fileIdx = 0
  /\ inputPdf = NoDoc
  /\ eng = NoEng
  /\ outputPdf = << >>
  /\ embedCalls = << >>
  /\ results = << >>
  /\ stderr = << >>
  /\ exitCode = -1

Exit(code) == pc' = "exited" /\ exitCode' = code

\* if (!(inputPath && outputPath)) { usage; process.exit(1) }
UsageError ==
  /\ pc = "start"
  /\ ~argv.hasPaths
  /\ Exit(1)
  /\ UNCHANGED <<argv, PageSizes, files, fileIdx, inputPdf, eng, outputPdf,
                 embedCalls, results, stderr>>

\* statSync(inputPath) throws at top level: uncaught, node exits with 1
StatInputThrows ==
  /\ pc = "start"
  /\ argv.hasPaths
  /\ ~argv.inputExists
  /\ Exit(1)
  /\ UNCHANGED <<argv, PageSizes, files, fileIdx, inputPdf, eng, outputPdf,
                 embedCalls, results, stderr>>

\* batch mode, output path is not a directory
BatchOutputNotDirectory ==
  /\ pc = "start"
  /\ argv.hasPaths /\ argv.inputExists
  /\ argv.inputIsDir /\ ~argv.outputIsDir
  /\ stderr' = Append(stderr, "Error: In batch mode, output path must be a directory")
  /\ Exit(1)
  /\ UNCHANGED <<argv, PageSizes, files, fileIdx, inputPdf, eng, outputPdf,
                 embedCalls, results>>

\* processBatch is entered: readdirSync lists the input directory
StartBatch ==
  /\ pc = "start"
  /\ argv.hasPaths /\ argv.inputExists
  /\ argv.inputIsDir /\ argv.outputIsDir
  /\ \E n \in 0..MaxFiles : \E fs \in [1..n -> FileKinds] : files' = fs
  /\ fileIdx' = 1
  /\ pc' = "batch"
  /\ UNCHANGED <<argv, PageSizes, inputPdf, eng, outputPdf, embedCalls,
                 results, stderr, exitCode>>

\* single-file mode: pdfToBooklet(inputPath, outputPath, options)
StartSingle ==
  /\ pc = "start"
  /\ argv.hasPaths /\ argv.inputExists
  /\ ~argv.inputIsDir
  /\ pc' = "load"
  /\ UNCHANGED <<argv, PageSizes, files, fileIdx, inputPdf, eng, outputPdf,
                 embedCalls, results, stderr, exitCode>>

\* for (const file of files): an entry that is not a .pdf is passed over
BatchSkip ==
  /\ pc = "batch"
  /\ fileIdx <= Len(files)
  /\ files[fileIdx] # "pdf"
  /\ results' = Append(results, "skipped")
  /\ fileIdx' = fileIdx + 1
  /\ UNCHANGED <<pc, argv, PageSizes, files, inputPdf, eng, outputPdf,
                 embedCalls, stderr, exitCode>>

\* for (const file of files): a .pdf entry, pdfToBooklet is called
BatchCall ==
  /\ pc = "batch"
  /\ fileIdx <= Len(files)
  /\ files[fileIdx] = "pdf"
  /\ pc' = "load"
  /\ UNCHANGED <<argv, PageSizes, files, fileIdx, inputPdf, eng, outputPdf,
                 embedCalls, results, stderr, exitCode>>

\* the loop is over: 'Batch processing completed successfully'
BatchDone ==
  /\ pc = "batch"
  /\ fileIdx > Len(files)
  /\ Exit(0)
  /\ UNCHANGED <<argv, PageSizes, files, fileIdx, inputPdf, eng, outputPdf,
                 embedCalls, results, stderr>>

\* An exception leaves pdfToBooklet.  In batch mode it also leaves
\* processBatch's loop and is caught by the try/catch around processBatch;
\* in single-file mode by the try/catch around pdfToBooklet.  Both handlers
\* only call console.error, and the script then runs off its end.
Throw ==
  /\ results' = Append(results, "failed")
  /\ stderr' = Append(stderr, IF argv.inputIsDir
                                THEN "Error in batch processing:"
                                ELSE "Error creating booklet:")
  /\ pc' = "exited"
  /\ exitCode' = 0

\* readFileSync or PDFDocument.load throws
LoadThrows ==
  /\ pc = "load"
  /\ inputPdf' = NoDoc
  /\ eng' = NoEng
  /\ outputPdf' = << >>
  /\ embedCalls' = << >>
  /\ Throw
  /\ UNCHANGED <<argv, PageSizes, files, fileIdx>>

\* the document has no pages: inputPdf.getPage(0) throws, after
\* PDFDocument.create() and before PageSizes is touched
GetPageThrows ==
  /\ pc = "load"
  /\ inputPdf' = [pageCount |-> 0, origWidth |-> -1, origHeight |-> -1]
  /\ eng' = NoEng
  /\ outputPdf' = << >>
  /\ embedCalls' = << >>
  /\ Throw
  /\ UNCHANGED <<argv, PageSizes, files, fileIdx>>

\* lines 9-48: load, page counts, first page size, sheet size, scale
Analyze ==
  /\ pc = "load"
  /\ \E pageCount \in 1..MaxPageCount, size \in FirstPageSizes :
       LET doc == [pageCount |-> pageCount,
                   origWidth |-> size[1], origHeight |-> size[2]]
           preset == IF argv.useA3 THEN "A3" ELSE "A4"
           reversed == Reverse(PageSizes[preset])
       IN /\ inputPdf' = doc
          /\ PageSizes' = [PageSizes EXCEPT ![preset] = reversed]
          /\ eng' = Geometry(doc, reversed)
  /\ outputPdf' = << >>
  /\ embedCalls' = << >>
  /\ pc' = "sheets"
  /\ UNCHANGED <<argv, files, fileIdx, results, stderr, exitCode>>

\* one iteration of the sheet loop: back side, then front side
SheetStep ==
  /\ pc = "sheets"
  /\ LoopCond(eng.index, eng.finalPageCount)
  /\ LET index == eng.index
         N == eng.finalPageCount
         half == eng.outputWidth \div 2
         backLeftBottom == addPageToOutput(BackLeftPage(N, index), 0, 0)
         backRightBottom == addPageToOutput(BackRightPage(N, index), half, 0)
         frontLeftBottom == addPageToOutput(FrontLeftPage(N, index), 0, 0)
         frontRightBottom == addPageToOutput(FrontRightPage(N, index), half, 0)
         outputPage == [side |-> "back", index |-> index,
                        leftPage |-> BackLeftPage(N, index),
                        rightPage |-> BackRightPage(N, index),
                        draws |-> DrawSlot("left", backLeftBottom) \o
                                  DrawSlot("right", backRightBottom)]
         frontPage == [side |-> "front", index |-> index,
                       leftPage |-> FrontLeftPage(N, index),
                       rightPage |-> FrontRightPage(N, index),
                       draws |-> DrawSlot("left", frontLeftBottom) \o
                                 DrawSlot("right", frontRightBottom)]
     IN /\ outputPdf' = outputPdf \o <<outputPage, frontPage>>
        /\ embedCalls' = embedCalls \o Embedded(backLeftBottom)
                                    \o Embedded(backRightBottom)
                                    \o Embedded(frontLeftBottom)
                                    \o Embedded(frontRightBottom)
        /\ eng' = [eng EXCEPT !.index = NextIndex(index)]
  /\ UNCHANGED <<pc, argv, PageSizes, files, fileIdx, inputPdf, results,
                 stderr, exitCode>>

\* outputPdf.save() and writeFileSync succeed; pdfToBooklet returns
Save ==
  /\ pc = "sheets"
  /\ ~LoopCond(eng.index, eng.finalPageCount)
  /\ results' = Append(results, "written")
  /\ IF argv.inputIsDir
       THEN /\ pc' = "batch"
            /\ fileIdx' = fileIdx + 1
            /\ UNCHANGED exitCode
       ELSE /\ Exit(0)
            /\ UNCHANGED fileIdx
  /\ UNCHANGED <<argv, PageSizes, files, inputPdf, eng, outputPdf,
                 embedCalls, stderr>>

\* outputPdf.save() or writeFileSync throws
SaveThrows ==
  /\ pc = "sheets"
  /\ ~LoopCond(eng.index, eng.finalPageCount)
  /\ Throw
  /\ UNCHANGED <<argv, PageSizes, files, fileIdx, inputPdf, eng, outputPdf,
                 embedCalls>>

Next ==
  \/ UsageError
  \/ StatInputThrows
  \/ BatchOutputNotDirectory
  \/ StartBatch
  \/ StartSingle
  \/ BatchSkip
  \/ BatchCall
  \/ BatchDone
  \/ LoadThrows
  \/ GetPageThrows
  \/ Analyze
  \/ SheetStep
  \/ Save
  \/ SaveThrows

Spec == Init /\ [][Next]_vars

----------------------------------------------------------------------------
\* Vocabulary of the properties

\* pdfToBooklet got past getPage(0) for the current (or last) document
Analyzed == inputPdf.pageCount >= 1

\* the sheet loop of an analysed document has run to its end
LoopDone == Analyzed /\ ~(eng.index < eng.finalPageCount \div 2)

\* the script went through processBatch / through the single-file branch
RanBatch == argv.hasPaths /\ argv.inputExists /\ argv.inputIsDir /\ argv.outputIsDir
RanSingle == argv.hasPaths /\ argv.inputExists /\ ~argv.inputIsDir

\* number of physical sheets emitted: a back page followed by a front page
SheetCount == Len(outputPdf) \div 2

\* The slot read at position j (1..4*SheetCount) of the folded booklet:
\* back-right then front-left of each sheet in emission order, then
\* front-right then back-left of each sheet in reverse emission order.
FoldSlot(j) ==
  IF j <= 2 * SheetCount
    THEN LET k == (j + 1) \div 2
         IN IF j % 2 = 1 THEN [at |-> 2 * k - 1, slot |-> "right"]
                         ELSE [at |-> 2 * k, slot |-> "left"]
    ELSE LET i == j - 2 * SheetCount
             k == SheetCount - (i - 1) \div 2
         IN IF i % 2 = 1 THEN [at |-> 2 * k, slot |-> "right"]
                         ELSE [at |-> 2 * k - 1, slot |-> "left"]

\* logical page number assigned to a slot of output page number at
LogicalPage(at, slot) ==
  IF slot = "left" THEN outputPdf[at].leftPage ELSE outputPdf[at].rightPage

\* the drawPage calls made for a slot of output page number at
SlotDraws(at, slot) == SelectSeq(outputPdf[at].draws, LAMBDA d : d.slot = slot)

\* logical pages in folded reading order
ReadingOrder ==
  [j \in 1..(4 * SheetCount) |-> LogicalPage(FoldSlot(j).at, FoldSlot(j).slot)]

\* source pages actually drawn (bottom stamps), in folded reading order
RECURSIVE DrawnReading(_)
DrawnReading(j) ==
  IF j = 0 THEN << >>
  ELSE LET ds == SlotDraws(FoldSlot(j).at, FoldSlot(j).slot)
       IN DrawnReading(j - 1) \o (IF ds = << >> THEN << >> ELSE << ds[1].page >>)

\* the slots in which source page p is drawn
SlotsOf(p) ==
  {sl \in (1..Len(outputPdf)) \X {"left", "right"} :
     \E i \in 1..Len(SlotDraws(sl[1], sl[2])) :
        SlotDraws(sl[1], sl[2])[i].page = p}

AllSlots == (1..Len(outputPdf)) \X {"left", "right"}

AllDraws == {outputPdf[at].draws[i] : <<at, i>> \in
               {q \in (1..Len(outputPdf)) \X (1..4) : q[2] <= Len(outputPdf[q[1]].draws)}}

\* comparisons of a JavaScript number with an integer
IsPositive(s) == s.k = "inf" \/ (s.k = "fin" /\ s.n > 0)
AtMost(s, i) == s.k = "ninf" \/ (s.k = "fin" /\ s.n <= i * s.d)

PositiveFirstPage == Analyzed /\ inputPdf.origWidth > 0 /\ inputPdf.origHeight > 0

----------------------------------------------------------------------------
\* C1: once the sheet loop has finished, reading the slots in the folded
\* saddle-stitch order gives the logical pages 0, 1, ..., N-1 in ascending
\* order (N = finalPageCount), the pages drawn read 0, ..., pageCount-1
\* without gaps, and every source page is drawn in exactly one slot.
C1_ReadingOrder ==
  LoopDone =>
    /\ eng.finalPageCount = 4 * ((inputPdf.pageCount + 3) \div 4)
    /\ Len(outputPdf) = eng.finalPageCount \div 2
    /\ \A k \in 1..SheetCount :
         /\ outputPdf[2 * k - 1].side = "back"
         /\ outputPdf[2 * k].side = "front"
         /\ outputPdf[2 * k - 1].index = 2 * (k - 1)
         /\ outputPdf[2 * k].index = 2 * (k - 1)
    /\ ReadingOrder = [j \in 1..eng.finalPageCount |-> j - 1]
    /\ DrawnReading(4 * SheetCount) = [j \in 1..inputPdf.pageCount |-> j - 1]
    /\ \A p \in 0..(inputPdf.pageCount - 1) : Cardinality(SlotsOf(p)) = 1

C1_Witness ==
  /\ LoopDone /\ PositiveFirstPage
  /\ inputPdf.pageCount = 5
  /\ SheetCount = 2
  /\ results # << >> /\ results[Len(results)] = "written"

\* C2: no embedPdf call and no drawPage call names a source page outside
\* [0, pageCount); a slot whose logical page is >= pageCount has no draw,
\* a slot whose logical page is < pageCount has one.
C2_NoBlankPlacement ==
  Analyzed =>
    /\ \A i \in 1..Len(embedCalls) :
         embedCalls[i] >= 0 /\ embedCalls[i] < inputPdf.pageCount
    /\ \A d \in AllDraws : d.page >= 0 /\ d.page < inputPdf.pageCount
    /\ \A sl \in AllSlots :
         LET ds == SlotDraws(sl[1], sl[2])
         IN IF LogicalPage(sl[1], sl[2]) < inputPdf.pageCount
              THEN ds # << >> /\ \A i \in 1..Len(ds) : ds[i].page = LogicalPage(sl[1], sl[2])
              ELSE ds = << >>

C2_Witness ==
  /\ LoopDone /\ PositiveFirstPage
  /\ inputPdf.pageCount = 5
  /\ \E sl \in AllSlots : LogicalPage(sl[1], sl[2]) >= inputPdf.pageCount
  /\ \E sl \in AllSlots : SlotDraws(sl[1], sl[2]) # << >>
  /\ Len(embedCalls) = 5

\* C3: in batch mode a failing document does not stop the batch: when the
\* script has ended, every .pdf entry of the directory has been processed
\* (written or failed), and a failure has been reported.
C3_BatchContinues ==
  (pc = "exited" /\ RanBatch) =>
    /\ Len(results) = Len(files)
    /\ \A i \in 1..Len(files) :
         files[i] = "pdf" => results[i] \in {"written", "failed"}
    /\ (\E i \in 1..Len(results) : results[i] = "failed") => stderr # << >>

\* C4: nothing carries from one document to the next: the sheet size and
\* scale of every document are the ones a fresh run computes for it, and
\* the sheet is landscape.
C4_NoCarriedState ==
  Analyzed =>
    /\ [eng EXCEPT !.index = 0] =
         Geometry(inputPdf, Reverse(PageSizesInit[IF argv.useA3 THEN "A3" ELSE "A4"]))
    /\ eng.outputWidth > eng.outputHeight

\* C5: exit status 0 only on success: a failure in single-file mode and a
\* usage error both end the process with status 1.
C5_ExitStatus ==
  pc = "exited" =>
    /\ (RanSingle /\ results # <<"written">>) => exitCode = 1
    /\ ~argv.hasPaths => exitCode = 1
    /\ (argv.hasPaths /\ argv.inputExists /\ argv.inputIsDir /\ ~argv.outputIsDir)
         => exitCode = 1

\* C6: a document with no page, or whose first page has a non-positive
\* width or height, makes the engine fail before any sheet is added and
\* before any output is written.
C6_FailFast ==
  (inputPdf.pageCount = 0 \/
   (Analyzed /\ (inputPdf.origWidth <= 0 \/ inputPdf.origHeight <= 0))) =>
    /\ outputPdf = << >>
    /\ pc # "sheets" => (results # << >> /\ results[Len(results)] = "failed")

\* C7: with a positive first page, padding >= 0 and scale > 0, every
\* placement lies inside its slot (left or right half of the sheet; in
\* double-print mode the bottom or top half of that), and the placements
\* of one side occupy different slots.
C7_InsideSlot ==
  (PositiveFirstPage /\ Padding >= 0 /\ IsPositive(eng.scale)) =>
    \A at \in 1..Len(outputPdf) :
      LET ds == outputPdf[at].draws
          W == eng.outputWidth
          H == eng.outputHeight
      IN /\ \A i \in 1..Len(ds) :
              LET d == ds[i]
                  left == IF d.slot = "left" THEN 0 ELSE W \div 2
                  right == IF d.slot = "left" THEN W \div 2 ELSE W
                  bottom == IF d.stamp = "top" THEN H \div 2 ELSE 0
                  top == IF ~argv.double \/ d.stamp = "top" THEN H ELSE H \div 2
              IN /\ d.x >= left
                 /\ d.y >= bottom
                 /\ IsPositive(d.width) /\ AtMost(d.width, right - d.x)
                 /\ IsPositive(d.height) /\ AtMost(d.height, top - d.y)
         /\ \A i, j \in 1..Len(ds) :
              i # j => <<ds[i].slot, ds[i].stamp>> # <<ds[j].slot, ds[j].stamp>>

C7_Witness ==
  /\ LoopDone
  /\ PositiveFirstPage /\ Padding > 0 /\ IsPositive(eng.scale)
  /\ argv.double
  /\ \E at \in 1..Len(outputPdf) : Len(outputPdf[at].draws) = 4

\* C8 as stated: scale > 0 for a positive first page and every padding with
\* 0 <= padding < outputWidth/2 and padding < outputHeight/2.
C8_ScalePositive_Original ==
  (PositiveFirstPage /\ Padding >= 0
     /\ 2 * Padding < eng.outputWidth /\ 2 * Padding < eng.outputHeight)
  => IsPositive(eng.scale)

\* C8 amended: scale > 0 for a positive first page and every padding with
\* 0 <= padding < outputWidth/4 and padding < outputHeight/2 (padding <
\* outputHeight/4 in double-print mode).
C8_ScalePositive ==
  (PositiveFirstPage /\ Padding >= 0
     /\ 4 * Padding < eng.outputWidth
     /\ (IF argv.double THEN 4 ELSE 2) * Padding < eng.outputHeight)
  => IsPositive(eng.scale)

C8_Witness ==
  /\ PositiveFirstPage
  /\ Padding > 0
  /\ 4 * Padding < eng.outputWidth
  /\ (IF argv.double THEN 4 ELSE 2) * Padding < eng.outputHeight
  /\ argv.double
  /\ IsPositive(eng.scale)

\* C9: a non-empty slot has exactly 2 placements of the same source page in
\* double-print mode (bottom at y = padding, top at y = outputHeight/2 +
\* padding, same x, width and height, different y), exactly 1 in single
\* mode; an empty slot has none.
C9_Stamps ==
  Analyzed =>
    \A sl \in AllSlots :
      LET ds == SlotDraws(sl[1], sl[2])
      IN IF LogicalPage(sl[1], sl[2]) >= inputPdf.pageCount THEN Len(ds) = 0
         ELSE IF argv.double
           THEN /\ Len(ds) = 2
                /\ ds[1].stamp = "bottom" /\ ds[2].stamp = "top"
                /\ ds[1].y = Padding
                /\ ds[2].y = eng.outputHeight \div 2 + Padding
                /\ ds[1].y # ds[2].y
                /\ ds[1].page = ds[2].page
                /\ ds[1].x = ds[2].x
                /\ ds[1].width = ds[2].width
                /\ ds[1].height = ds[2].height
           ELSE /\ Len(ds) = 1
                /\ ds[1].stamp = "bottom"
                /\ ds[1].y = Padding

C9_Witness ==
  /\ LoopDone /\ PositiveFirstPage
  /\ argv.double /\ Padding > 0
  /\ \E sl \in AllSlots : Len(SlotDraws(sl[1], sl[2])) = 2
  /\ \E sl \in AllSlots : LogicalPage(sl[1], sl[2]) >= inputPdf.pageCount

\* C10 as stated: pageCount = 4 in single mode gives 2 sheets (4 sides),
\* each side with 2 populated slots.
C10_FourPages_Original ==
  (LoopDone /\ inputPdf.pageCount = 4 /\ ~argv.double) =>
    /\ eng.finalPageCount = 4
    /\ SheetCount = 2 /\ Len(outputPdf) = 4
    /\ \A at \in 1..Len(outputPdf) : Len(outputPdf[at].draws) = 2

\* C10 amended: pageCount = 4 in single mode gives 1 sheet (2 sides, back
\* then front), each side with 2 populated slots; in general every
\* iteration of the sheet loop adds one sheet of two sides.
C10_FourPages ==
  /\ Analyzed => Len(outputPdf) = eng.index
  /\ (LoopDone /\ inputPdf.pageCount = 4 /\ ~argv.double) =>
       /\ eng.finalPageCount = 4
       /\ SheetCount = 1 /\ Len(outputPdf) = 2
       /\ outputPdf[1].side = "back" /\ outputPdf[2].side = "front"
       /\ \A at \in 1..Len(outputPdf) : Len(outputPdf[at].draws) = 2

C10_Witness ==
  /\ LoopDone /\ PositiveFirstPage
  /\ inputPdf.pageCount = 4 /\ ~argv.double
  /\ Len(outputPdf) = 2
  /\ results # << >> /\ results[Len(results)] = "written"

====
